---- MODULE Spec2Model ----
(***************************************************************************)
(* A model of the rust-telemetry service: the process entrypoint           *)
(* (src/src/main.rs), the telemetry providers (src/src/otel.rs), the       *)
(* connection pool (src/src/db.rs) and the three request handlers          *)
(* (src/src/handlers.rs) behind the router (src/src/routes.rs).            *)
(*                                                                         *)
(* main is one sequential task whose position is pc.  Every HTTP request   *)
(* is an independent task; a handler suspends at exactly one await, the    *)
(* database call, which the model splits into: waiting for a pool          *)
(* connection, the statement executing in the database, and the handler    *)
(* resuming with the call's result.                                        *)
(***************************************************************************)
EXTENDS Integers, FiniteSets, Sequences, TLC

VARIABLES
    pc,                     \* position of main
    tracer,                 \* providers.tracer: "none" | "running" | "shutdown"
    meter,                  \* providers.meter:  "none" | "running" | "shutdown"
    tracerShutdowns,        \* calls of providers.tracer.shutdown()
    meterShutdowns,         \* calls of providers.meter.shutdown()
    database_url,           \* main's local: TRUE once DATABASE_URL was read
    pool,                   \* main's local: "none" | "connected"
    migrated,               \* TRUE once sqlx::migrate!().run() returned Ok
    listener,               \* TRUE while the TcpListener is bound and accepting
    signal,                 \* TRUE once shutdown_signal() has completed
    users_created_counter,  \* AppState.users_created_counter
    db,                     \* the rows of table users
    req                     \* the request tasks

vars == <<pc, tracer, meter, tracerShutdowns, meterShutdowns, database_url, pool,
          migrated, listener, signal, users_created_counter, db, req>>

mainVars == <<pc, tracer, meter, tracerShutdowns, meterShutdowns, database_url, pool,
              migrated, listener, signal>>

----------------------------------------------------------------------------
(* Bounds of the model *)

MaxReqs == 2            \* request tasks in one run
MaxUuid == 2            \* distinct values Uuid::new_v4() can return
MaxConnections == 1     \* connections of the pool

Reqs == 1..MaxReqs
Uuids == 1..MaxUuid

----------------------------------------------------------------------------
(* Domain model: models.rs *)

User(id, first_name, last_name) ==
    [id |-> id, first_name |-> first_name, last_name |-> last_name]

\* JSON bodies a client posts to /user: two complete ones and one without first_name.
JsonBodies ==
    { [first_name |-> "Ada", last_name |-> "Lovelace"],
      [first_name |-> "Grace", last_name |-> "Hopper"],
      [last_name |-> "Lovelace"] }


RequiredFields == {"first_name", "last_name"}      \* CreateUserRequest

NoBody == [first_name |-> "", last_name |-> ""]

\* sqlx::Result of one database call, as the handler sees it after the await.
Pending == [tag |-> "pending", rows |-> {}, err |-> ""]
OkRows(rows) == [tag |-> "ok", rows |-> rows, err |-> ""]
Err(e) == [tag |-> "err", rows |-> {}, err |-> e]
DbErr == Err("database")
PoolTimedOut == Err("pool timed out")

\* HTTP response: status, JSON body (a set of users) and text body.
NoResponse == [status |-> 0, users |-> {}, text |-> ""]
Response(status, users, text) == [status |-> status, users |-> users, text |-> text]

Idle ==
    [state |-> "idle", kind |-> "none", id |-> 0, body |-> NoBody,
     result |-> Pending, resp |-> NoResponse]

InFlight(r) == req[r].state \in {"waiting", "querying", "resumed"}

\* connections of the pool checked out by in-flight requests
CheckedOut == Cardinality({r \in Reqs : req[r].state = "querying"})

\* Uuids are interchangeable: the program compares them for equality and
\* nothing else.  A uuid no request of the run has carried yet is therefore
\* represented by the least such value; a uuid may also repeat one already seen.
SeenUuids == { req[r].id : r \in {q \in Reqs : req[q].id # 0} }

UnseenUuids == Uuids \ SeenUuids

DrawableUuids ==
    SeenUuids \cup { u \in UnseenUuids : \A v \in UnseenUuids : u <= v }

\* Path segments a client sends as {id}: the text of a uuid, or other text.
PathSegments == { <<"uuid", u>> : u \in DrawableUuids } \cup { <<"text", "abc">> }

----------------------------------------------------------------------------
(* Init: the process has just started; the migrations will create table users *)

Init ==
    /\ pc = "init_providers"
    /\ tracer = "none"
    /\ meter = "none"
    /\ tracerShutdowns = 0
    /\ meterShutdowns = 0
    /\ database_url = FALSE
    /\ pool = "none"
    /\ migrated = FALSE
    /\ listener = FALSE
    /\ signal = FALSE
    /\ users_created_counter = 0
    /\ db = {}
    /\ req = [r \in Reqs |-> Idle]

----------------------------------------------------------------------------
(* main: src/src/main.rs *)

\* Every `?` of main returns the error from main: the process exits and the two
\* lines that shut the providers down (67, 68) are not reached.
ReturnErr ==
    /\ pc' = "exit_err"
    /\ UNCHANGED <<tracer, meter, tracerShutdowns, meterShutdowns, database_url, pool,
                   migrated, listener, signal>>

\* otel::init_providers() and the subscriber set-up, main.rs 19-29.
\* outcome "span" / "metric": the exporter's build() failed (otel.rs 16, 26).
init_providers ==
    /\ pc = "init_providers"
    /\ \E outcome \in {"ok", "span", "metric"} :
         /\ tracer' = IF outcome = "span" THEN "none" ELSE "running"
         /\ meter' = IF outcome = "ok" THEN "running" ELSE "none"
         /\ pc' = IF outcome = "ok" THEN "env" ELSE "exit_err"
    /\ UNCHANGED <<tracerShutdowns, meterShutdowns, database_url, pool, migrated,
                   listener, signal>>
    /\ UNCHANGED <<users_created_counter, db, req>>

\* env::var("DATABASE_URL"), main.rs 31
read_database_url ==
    /\ pc = "env"
    /\ \/ /\ database_url' = TRUE
          /\ pc' = "connect"
          /\ UNCHANGED <<tracer, meter, tracerShutdowns, meterShutdowns, pool, migrated,
                         listener, signal>>
       \/ ReturnErr
    /\ UNCHANGED <<users_created_counter, db, req>>

\* db::create_pool(&database_url), main.rs 32 and db.rs 4-8
create_pool ==
    /\ pc = "connect"
    /\ \/ /\ pool' = "connected"
          /\ pc' = "migrate"
          /\ UNCHANGED <<tracer, meter, tracerShutdowns, meterShutdowns, database_url,
                         migrated, listener, signal>>
       \/ ReturnErr
    /\ UNCHANGED <<users_created_counter, db, req>>

\* run_migrations with the result of run() dropped instead of returned by `?`
run_migrations_unchecked ==
    /\ pc = "migrate"
    /\ \E applied \in BOOLEAN : migrated' = applied
    /\ pc' = "build"
    /\ UNCHANGED <<tracer, meter, tracerShutdowns, meterShutdowns, database_url,
                   pool, listener, signal>>
    /\ UNCHANGED <<users_created_counter, db, req>>

\* sqlx::migrate!("./migrations").run(&pool), main.rs 34-37
run_migrations ==
    /\ pc = "migrate"
    /\ \/ /\ migrated' = TRUE
          /\ pc' = "build"
          /\ UNCHANGED <<tracer, meter, tracerShutdowns, meterShutdowns, database_url,
                         pool, listener, signal>>
       \/ ReturnErr
    /\ UNCHANGED <<users_created_counter, db, req>>

\* the meter's instruments, AppState and the router, main.rs 41-58
build_state ==
    /\ pc = "build"
    /\ users_created_counter' = 0
    /\ pc' = "bind"
    /\ UNCHANGED <<tracer, meter, tracerShutdowns, meterShutdowns, database_url, pool,
                   migrated, listener, signal>>
    /\ UNCHANGED <<db, req>>

\* TcpListener::bind("0.0.0.0:3000"), main.rs 59
bind_listener ==
    /\ pc = "bind"
    /\ \/ /\ listener' = TRUE
          /\ pc' = "serve"
          /\ UNCHANGED <<tracer, meter, tracerShutdowns, meterShutdowns, database_url,
                         pool, migrated, signal>>
       \/ ReturnErr
    /\ UNCHANGED <<users_created_counter, db, req>>

\* shutdown_signal(): ctrl_c() completes, main.rs 73-78
shutdown_signal ==
    /\ pc = "serve"
    /\ ~signal
    /\ signal' = TRUE
    /\ UNCHANGED <<pc, tracer, meter, tracerShutdowns, meterShutdowns, database_url,
                   pool, migrated, listener>>
    /\ UNCHANGED <<users_created_counter, db, req>>

\* serve_returns as it would be if the server future were dropped on the signal
\* (select! on the signal) instead of being given it by with_graceful_shutdown
serve_returns_no_drain ==
    /\ pc = "serve"
    /\ signal
    /\ listener' = FALSE
    /\ pc' = "shutdown_tracer"
    /\ UNCHANGED <<tracer, meter, tracerShutdowns, meterShutdowns, database_url, pool,
                   migrated, signal>>
    /\ UNCHANGED <<users_created_counter, db, req>>

\* axum::serve(..).with_graceful_shutdown(..) returns, main.rs 62-65: after the
\* signal, once every in-flight request has been answered.
serve_returns ==
    /\ pc = "serve"
    /\ signal
    /\ \A r \in Reqs : ~InFlight(r)
    /\ listener' = FALSE
    /\ pc' = "shutdown_tracer"
    /\ UNCHANGED <<tracer, meter, tracerShutdowns, meterShutdowns, database_url, pool,
                   migrated, signal>>
    /\ UNCHANGED <<users_created_counter, db, req>>

\* providers.tracer.shutdown(), main.rs 67
shutdown_tracer ==
    /\ pc = "shutdown_tracer"
    /\ tracer' = "shutdown"
    /\ tracerShutdowns' = tracerShutdowns + 1
    /\ pc' = "shutdown_meter"
    /\ UNCHANGED <<meter, meterShutdowns, database_url, pool, migrated, listener,
                   signal>>
    /\ UNCHANGED <<users_created_counter, db, req>>

\* providers.meter.shutdown() and Ok(()), main.rs 68-70
shutdown_meter ==
    /\ pc = "shutdown_meter"
    /\ meter' = "shutdown"
    /\ meterShutdowns' = meterShutdowns + 1
    /\ pc' = "exit_ok"
    /\ UNCHANGED <<tracer, tracerShutdowns, database_url, pool, migrated, listener,
                   signal>>
    /\ UNCHANGED <<users_created_counter, db, req>>

----------------------------------------------------------------------------
(* The statements of the handlers against table users *)

\* The table's primary key is id: an INSERT of an id the table holds is refused.
PrimaryKeyViolation(table, id) == \E row \in table : row.id = id

\* SELECT id, first_name, last_name FROM users
SelectUsers(table) ==
    { User(row.id, row.first_name, row.last_name) : row \in table }

\* SELECT id, first_name, last_name FROM users WHERE id = $1
SelectUserById(table, id) ==
    { User(row.id, row.first_name, row.last_name) : row \in {t \in table : t.id = id} }

\* INSERT INTO users (id, first_name, last_name) VALUES ($1, $2, $3)
InsertUser(table, id, first_name, last_name) ==
    table \cup { User(id, first_name, last_name) }

----------------------------------------------------------------------------
(* Extractors of the handlers: handlers.rs 56, 82 *)

\* Path<Uuid>: the status of the rejection, 0 when the segment parses as a uuid.
\* A segment that is not a uuid is a deserialization error of the path: 400.
PathRejection(seg) == IF seg[1] = "uuid" THEN 0 ELSE 400

PathUuid(seg) == seg[2]

\* JsonRejection as it would be with #[serde(default)] on first_name
JsonRejection_default_first_name(body) ==
    IF "last_name" \in DOMAIN body THEN 0 ELSE 422

\* Json<CreateUserRequest>: the status of the rejection, 0 when the body
\* deserializes.  A body that is valid JSON but lacks a field of the struct is a
\* data error of the Json extractor, which answers 422 Unprocessable Entity.
JsonRejection(body) ==
    IF RequiredFields \subseteq DOMAIN body THEN 0 ELSE 422

----------------------------------------------------------------------------
(* Responses: handlers.rs *)

\* impl IntoResponse for AppError, handlers.rs 17-21: 500 and the text of the
\* outermost context of the error (what .context("...") attached).
into_response(context) == Response(500, {}, context)

\* get_users_response with the error of the call replaced by no rows
\* (unwrap_or_default() in place of `?`)
get_users_response_default(result) ==
    Response(200, { User(row.id, row.first_name, row.last_name) : row \in result.rows }, "")

\* get_users after the await, handlers.rs 37-50
get_users_response(result) ==
    IF result.tag = "err"
    THEN into_response("Failed to fetch users")
    ELSE Response(200,
                  { User(row.id, row.first_name, row.last_name) : row \in result.rows },
                  "")

\* get_user_response as it would be with fetch_one in place of fetch_optional:
\* no row is an error of the call
get_user_response_fetch_one(result) ==
    IF result.tag = "err" \/ result.rows = {}
    THEN into_response("Failed to fetch user")
    ELSE Response(200,
                  { User(row.id, row.first_name, row.last_name) : row \in result.rows },
                  "")

\* get_user after the await, handlers.rs 63-76
get_user_response(result) ==
    IF result.tag = "err"
    THEN into_response("Failed to fetch user")
    ELSE IF result.rows = {}
         THEN Response(404, {}, "")
         ELSE Response(200,
                       { User(row.id, row.first_name, row.last_name) : row \in result.rows },
                       "")

\* add_user_response with the result of execute() dropped instead of returned by `?`
add_user_response_unchecked(result, id, body) ==
    Response(201, { User(id, body.first_name, body.last_name) }, "")

\* add_user after the await, handlers.rs 93-106
add_user_response(result, id, body) ==
    IF result.tag = "err"
    THEN into_response("Failed to insert user")
    ELSE Response(201, { User(id, body.first_name, body.last_name) }, "")

\* add_user_counter with the add moved before the statement
add_user_counter_early(result, counter) == counter + 1

\* state.users_created_counter.add(1, &[]), handlers.rs 95: reached only when
\* the `?` of line 93 did not return.
add_user_counter(result, counter) ==
    IF result.tag = "err" THEN counter ELSE counter + 1

----------------------------------------------------------------------------
(* Request tasks *)

\* Requests are numbered in the order the listener accepts them.
CanAccept(r) ==
    /\ pc = "serve"
    /\ listener
    /\ ~signal
    /\ req[r].state = "idle"
    /\ \A q \in Reqs : q < r => req[q].state # "idle"

\* An extractor's rejection is the response; the handler's body does not run.
Rejected(r, kind, body, status) ==
    req' = [req EXCEPT ![r] = [Idle EXCEPT !.state = "done", !.kind = kind,
                                           !.body = body,
                                           !.resp = Response(status, {}, "rejected")]]

\* GET /users is routed to get_users (routes.rs 10); the handler runs to its await.
accept_get_users(r) ==
    /\ CanAccept(r)
    /\ req' = [req EXCEPT ![r] = [Idle EXCEPT !.state = "waiting", !.kind = "get_users"]]
    /\ UNCHANGED <<users_created_counter, db>>
    /\ UNCHANGED mainVars

\* GET /user/{id} is routed to get_user (routes.rs 9); Path<Uuid> rejects the
\* request before the handler's body runs, or the handler runs to its await.
accept_get_user(r) ==
    /\ CanAccept(r)
    /\ \E seg \in PathSegments :
         IF PathRejection(seg) # 0
         THEN Rejected(r, "get_user", NoBody, PathRejection(seg))
         ELSE req' = [req EXCEPT ![r] = [Idle EXCEPT !.state = "waiting",
                                                     !.kind = "get_user",
                                                     !.id = PathUuid(seg)]]
    /\ UNCHANGED <<users_created_counter, db>>
    /\ UNCHANGED mainVars

\* POST /user is routed to add_user (routes.rs 11); Json<CreateUserRequest>
\* rejects the request before the handler's body runs, or the handler draws
\* Uuid::new_v4() (handlers.rs 84) and runs to its await.
accept_add_user(r) ==
    /\ CanAccept(r)
    /\ \E body \in JsonBodies :
         IF JsonRejection(body) # 0
         THEN Rejected(r, "add_user", body, JsonRejection(body))
         ELSE \E id \in DrawableUuids :
                req' = [req EXCEPT ![r] = [Idle EXCEPT !.state = "waiting",
                                                       !.kind = "add_user",
                                                       !.id = id,
                                                       !.body = body]]
    /\ UNCHANGED <<users_created_counter, db>>
    /\ UNCHANGED mainVars

\* The pool hands the request a connection: PgPool of db.rs 5, used as the
\* executor at handlers.rs 34, 60, 90.
acquire(r) ==
    /\ req[r].state = "waiting"
    /\ CheckedOut < MaxConnections
    /\ req' = [req EXCEPT ![r].state = "querying"]
    /\ UNCHANGED <<users_created_counter, db>>
    /\ UNCHANGED mainVars

\* acquire_timeout as it would be for a pool that waits without a timeout
acquire_timeout_unbounded(r) ==
    /\ req[r].state = "waiting"
    /\ CheckedOut >= MaxConnections
    /\ UNCHANGED <<req, users_created_counter, db>>
    /\ UNCHANGED mainVars

\* No connection came free within the pool's acquire timeout (the pool of
\* db.rs 5 is built with the default options): the call returns an error.
acquire_timeout(r) ==
    /\ req[r].state = "waiting"
    /\ CheckedOut >= MaxConnections
    /\ req' = [req EXCEPT ![r].state = "resumed", ![r].result = PoolTimedOut]
    /\ UNCHANGED <<users_created_counter, db>>
    /\ UNCHANGED mainVars

\* fetch_all of get_users, handlers.rs 33-36
get_users_query(r) ==
    /\ req[r].state = "querying"
    /\ req[r].kind = "get_users"
    /\ req' = [req EXCEPT ![r].state = "resumed", ![r].result = OkRows(SelectUsers(db))]
    /\ UNCHANGED <<users_created_counter, db>>
    /\ UNCHANGED mainVars

\* fetch_optional of get_user, handlers.rs 58-62: no row, or one of the rows
\* the statement selects.
get_user_query(r) ==
    /\ req[r].state = "querying"
    /\ req[r].kind = "get_user"
    /\ LET rows == SelectUserById(db, req[r].id) IN
         \/ /\ rows = {}
            /\ req' = [req EXCEPT ![r].state = "resumed", ![r].result = OkRows({})]
         \/ \E row \in rows :
              req' = [req EXCEPT ![r].state = "resumed", ![r].result = OkRows({row})]
    /\ UNCHANGED <<users_created_counter, db>>
    /\ UNCHANGED mainVars

\* add_user_query with first_name bound to both name columns
add_user_query_misbound(r) ==
    /\ req[r].state = "querying"
    /\ req[r].kind = "add_user"
    /\ IF PrimaryKeyViolation(db, req[r].id)
       THEN /\ db' = db
            /\ req' = [req EXCEPT ![r].state = "resumed", ![r].result = DbErr]
       ELSE /\ db' = InsertUser(db, req[r].id, req[r].body.first_name,
                                req[r].body.first_name)
            /\ req' = [req EXCEPT ![r].state = "resumed", ![r].result = OkRows({})]
    /\ UNCHANGED users_created_counter
    /\ UNCHANGED mainVars

\* execute of add_user, handlers.rs 86-92: the row is inserted, or the
\* database refuses the statement and the table is as before.
add_user_query(r) ==
    /\ req[r].state = "querying"
    /\ req[r].kind = "add_user"
    /\ IF PrimaryKeyViolation(db, req[r].id)
       THEN /\ db' = db
            /\ req' = [req EXCEPT ![r].state = "resumed", ![r].result = DbErr]
       ELSE /\ db' = InsertUser(db, req[r].id, req[r].body.first_name,
                                req[r].body.last_name)
            /\ req' = [req EXCEPT ![r].state = "resumed", ![r].result = OkRows({})]
    /\ UNCHANGED users_created_counter
    /\ UNCHANGED mainVars

\* The database call of any handler fails (connection lost, statement
\* refused): the await returns Err and the table is as before.
query_fails(r) ==
    /\ req[r].state = "querying"
    /\ req' = [req EXCEPT ![r].state = "resumed", ![r].result = DbErr]
    /\ UNCHANGED <<users_created_counter, db>>
    /\ UNCHANGED mainVars

\* The handler resumes after its await and returns the response.
get_users_respond(r) ==
    /\ req[r].state = "resumed"
    /\ req[r].kind = "get_users"
    /\ req' = [req EXCEPT ![r].state = "done",
                          ![r].resp = get_users_response(req[r].result)]
    /\ UNCHANGED <<users_created_counter, db>>
    /\ UNCHANGED mainVars

get_user_respond(r) ==
    /\ req[r].state = "resumed"
    /\ req[r].kind = "get_user"
    /\ req' = [req EXCEPT ![r].state = "done",
                          ![r].resp = get_user_response(req[r].result)]
    /\ UNCHANGED <<users_created_counter, db>>
    /\ UNCHANGED mainVars

add_user_respond(r) ==
    /\ req[r].state = "resumed"
    /\ req[r].kind = "add_user"
    /\ users_created_counter' = add_user_counter(req[r].result, users_created_counter)
    /\ req' = [req EXCEPT ![r].state = "done",
                          ![r].resp = add_user_response(req[r].result, req[r].id,
                                                        req[r].body)]
    /\ UNCHANGED db
    /\ UNCHANGED mainVars

----------------------------------------------------------------------------

Next ==
    \/ init_providers
    \/ read_database_url
    \/ create_pool
    \/ run_migrations
    \/ build_state
    \/ bind_listener
    \/ shutdown_signal
    \/ serve_returns
    \/ shutdown_tracer
    \/ shutdown_meter
    \/ \E r \in Reqs : accept_get_users(r)
    \/ \E r \in Reqs : accept_get_user(r)
    \/ \E r \in Reqs : accept_add_user(r)
    \/ \E r \in Reqs : acquire(r)
    \/ \E r \in Reqs : acquire_timeout(r)
    \/ \E r \in Reqs : get_users_query(r)
    \/ \E r \in Reqs : get_user_query(r)
    \/ \E r \in Reqs : add_user_query(r)
    \/ \E r \in Reqs : query_fails(r)
    \/ \E r \in Reqs : get_users_respond(r)
    \/ \E r \in Reqs : get_user_respond(r)
    \/ \E r \in Reqs : add_user_respond(r)

Spec == Init /\ [][Next]_vars

\* The steps of request r that the runtime and the pool take on their own: the
\* pool hands out a free connection or its timer fires, and a handler whose
\* await has returned is polled to its end.  The database is not assumed to
\* answer a statement.
pool_step(r) == acquire(r) \/ acquire_timeout(r)

handler_step(r) == get_users_respond(r) \/ get_user_respond(r) \/ add_user_respond(r)

FairSpec ==
    /\ Init
    /\ [][Next]_vars
    /\ \A r \in Reqs : WF_vars(pool_step(r)) /\ WF_vars(handler_step(r))

----------------------------------------------------------------------------
(* Properties of the entrypoint *)

Exited == pc \in {"exit_ok", "exit_err"}

ProvidersBuilt == tracer # "none" /\ meter # "none"

\* C1: on every exit of the process after both providers were built, both
\* providers have been shut down.
ShutdownOnEveryExit ==
    (Exited /\ ProvidersBuilt) => (tracer = "shutdown" /\ meter = "shutdown")

\* C7: startup runs telemetry, configuration, pool, migrations, router, bind in
\* that order; the listener is bound and a request is accepted only after the
\* providers were built, DATABASE_URL was read, the pool was connected and the
\* migrations were applied; a failed step ends the process with the listener
\* never bound and no request accepted.
StartupOrder ==
    /\ database_url => ProvidersBuilt
    /\ (pool = "connected") => database_url
    /\ migrated => (pool = "connected")
    /\ (pc \in {"bind", "serve"}) => migrated
    /\ (listener \/ \E r \in Reqs : req[r].state # "idle")
          => (ProvidersBuilt /\ database_url /\ pool = "connected" /\ migrated)
    /\ (pc = "exit_err") => (~listener /\ \A r \in Reqs : req[r].state = "idle")

\* C7 witness: the service serves and has answered a request.
StartupOrderWitness ==
    /\ pc = "serve"
    /\ listener
    /\ migrated
    /\ \E r \in Reqs : req[r].state = "done"

\* C8: after the signal no request is accepted; serve returns and the providers
\* are shut down only when no request is in flight, every accepted request
\* having its response; each provider is shut down at most once, and exactly
\* once by the time the signal-triggered stop has exited.
GracefulDrain ==
    /\ [](pc \in {"shutdown_tracer", "shutdown_meter", "exit_ok"}
            => /\ signal
               /\ \A r \in Reqs : ~InFlight(r)
               /\ \A r \in Reqs : req[r].state # "idle"
                                     => (req[r].state = "done" /\ req[r].resp.status # 0))
    /\ []((tracer = "shutdown" \/ meter = "shutdown")
            => (signal /\ \A r \in Reqs : ~InFlight(r)))
    /\ [](tracerShutdowns <= 1 /\ meterShutdowns <= 1)
    /\ [](pc = "exit_ok" => (tracerShutdowns = 1 /\ meterShutdowns = 1))
    /\ [][signal => \A r \in Reqs : req[r].state = "idle" => req'[r].state = "idle"]_vars

\* C8 witness: the signal has arrived while a request is in flight, and serve
\* has not returned.
GracefulDrainWitness ==
    /\ pc = "serve"
    /\ signal
    /\ \E r \in Reqs : InFlight(r)
    /\ tracerShutdowns = 0
    /\ meterShutdowns = 0

----------------------------------------------------------------------------
(* Properties of the handlers *)

Done(r) == req[r].state = "done"

\* the INSERT of create request r succeeded
Inserted(r) == req[r].kind = "add_user" /\ req[r].result.tag = "ok"

\* create request r was answered 201
Created(r) == req[r].kind = "add_user" /\ Done(r) /\ req[r].resp.status = 201

\* the user create request r submitted, under the id the handler drew
Submitted(r) == User(req[r].id, req[r].body.first_name, req[r].body.last_name)

InsertedRows == { Submitted(r) : r \in {q \in Reqs : Inserted(q)} }

\* request r's database call returns rows in this step
Returns(r, kind) ==
    /\ req[r].kind = kind
    /\ req[r].state = "querying"
    /\ req'[r].state = "resumed"
    /\ req'[r].result.tag = "ok"

\* C2: the table holds exactly one row per successful create, with the
\* submitted names; a list returns exactly those rows; a get
\* of an id a create returned gives that create's record; no step removes or
\* changes a row.
ExactUsers ==
    /\ [](db = InsertedRows)
    /\ [](\A r \in Reqs : Inserted(r) =>
             /\ req[r].state \in {"resumed", "done"}
             /\ Done(r) => Created(r))
    /\ [](\A r \in Reqs : Created(r) =>
             /\ Inserted(r)
             /\ req[r].resp.users = {Submitted(r)}
             /\ Submitted(r) \in db)
    /\ [][\A r \in Reqs : Returns(r, "get_users") =>
             req'[r].result.rows = InsertedRows]_vars
    /\ [](\A r \in Reqs : (req[r].kind = "get_users" /\ Done(r) /\ req[r].result.tag = "ok")
             => (req[r].resp.status = 200 /\ req[r].resp.users = req[r].result.rows))
    /\ [][\A r \in Reqs : Returns(r, "get_user") =>
             \A c \in Reqs : (Created(c) /\ req[c].id = req[r].id)
                                => req'[r].result.rows = {Submitted(c)}]_vars
    /\ [](\A r \in Reqs : (req[r].kind = "get_user" /\ Done(r) /\ req[r].result.tag = "ok"
                            /\ req[r].result.rows # {})
             => (req[r].resp.status = 200 /\ req[r].resp.users = req[r].result.rows))
    /\ [][db \subseteq db']_vars

\* C2 witness: a create was answered 201 and a later get of its id returned
\* 200 with the submitted record.
ExactUsersWitness ==
    \E c, r \in Reqs :
        /\ Created(c)
        /\ req[r].kind = "get_user" /\ Done(r)
        /\ req[r].id = req[c].id
        /\ req[r].resp.status = 200
        /\ req[r].resp.users = {Submitted(c)}

\* C3: the ids of the creates answered 201 are pairwise distinct; no two rows
\* share an id; the table holds one row per successful insert, and once no
\* create is in flight one row per 201.
UniqueIds ==
    /\ \A r1, r2 \in Reqs :
          (Created(r1) /\ Created(r2) /\ r1 # r2) => req[r1].id # req[r2].id
    /\ \A row1, row2 \in db : row1.id = row2.id => row1 = row2
    /\ Cardinality(db) = Cardinality({r \in Reqs : Inserted(r)})
    /\ (\A r \in Reqs : req[r].kind = "add_user" => ~InFlight(r))
          => Cardinality(db) = Cardinality({r \in Reqs : Created(r)})

\* C3 witness: two creates in flight at once, both inserted.
UniqueIdsWitness ==
    \E r1, r2 \in Reqs :
        /\ r1 # r2
        /\ Inserted(r1) /\ req[r1].state = "resumed"
        /\ Inserted(r2) /\ req[r2].state = "resumed"

\* C4: a get is answered 400 exactly when the path segment was rejected (no
\* database call), 200 with the row exactly when the call returned a row, 404
\* with an empty body exactly when the call returned no row, 500 exactly when
\* the call failed; the call returns a row exactly when the table holds one
\* with that id.
GetUserOutcomes ==
    /\ [](\A r \in Reqs : (req[r].kind = "get_user" /\ Done(r)) =>
             /\ req[r].resp.status \in {200, 400, 404, 500}
             /\ (req[r].resp.status = 400) <=> (req[r].result.tag = "pending")
             /\ (req[r].resp.status = 500) <=> (req[r].result.tag = "err")
             /\ (req[r].resp.status = 404)
                   <=> (req[r].result.tag = "ok" /\ req[r].result.rows = {})
             /\ (req[r].resp.status = 200)
                   <=> (req[r].result.tag = "ok" /\ req[r].result.rows # {})
             /\ (req[r].resp.status = 404)
                   => (req[r].resp.users = {} /\ req[r].resp.text = "")
             /\ (req[r].resp.status = 200)
                   => /\ req[r].resp.users = req[r].result.rows
                      /\ req[r].resp.users \subseteq db
                      /\ \A u \in req[r].resp.users : u.id = req[r].id)
    /\ [][\A r \in Reqs : Returns(r, "get_user") =>
             (req'[r].result.rows = {} <=> ~\E row \in db : row.id = req[r].id)]_vars

\* C4 witness: one get answered 404 for an id the table lacks, another 400.
GetUserOutcomesWitness ==
    \E r1, r2 \in Reqs :
        /\ req[r1].kind = "get_user" /\ Done(r1) /\ req[r1].resp.status = 404
        /\ ~\E row \in db : row.id = req[r1].id
        /\ req[r2].kind = "get_user" /\ Done(r2) /\ req[r2].resp.status = 400

MissingFirstName(r) == req[r].kind = "add_user" /\ "first_name" \notin DOMAIN req[r].body

ContextOf(kind) ==
    CASE kind = "get_users" -> "Failed to fetch users"
      [] kind = "get_user" -> "Failed to fetch user"
      [] kind = "add_user" -> "Failed to insert user"

\* C6: a handler whose database call failed answers 500 with the text of its
\* context and no JSON; a failed create is not answered 201 and not counted;
\* the step in which a call fails or a 500 is returned changes nothing of
\* main, of the table, of the counter or of any other request.
DbFailureIs500 ==
    /\ [](\A r \in Reqs : (req[r].result.tag = "err" /\ Done(r)) =>
             /\ req[r].resp.status = 500
             /\ req[r].resp.users = {}
             /\ req[r].resp.text = ContextOf(req[r].kind))
    /\ [](\A r \in Reqs : (Done(r) /\ req[r].resp.status = 500) => req[r].result.tag = "err")
    /\ [](users_created_counter <= Cardinality({r \in Reqs : Inserted(r)}))
    /\ [][\A r \in Reqs :
             (req'[r].result.tag = "err" /\ req'[r] # req[r]) =>
                /\ pc' = pc /\ listener' = listener /\ pool' = pool
                /\ db' = db
                /\ users_created_counter' = users_created_counter
                /\ \A q \in Reqs \ {r} : req'[q] = req[q]]_vars

\* C6 witness: a request was answered 500 and a request accepted after it was
\* answered 200 while the process serves.
DbFailureIs500Witness ==
    \E r, q \in Reqs :
        /\ r < q
        /\ Done(r) /\ req[r].resp.status = 500 /\ req[r].kind = "add_user"
        /\ Done(q) /\ req[q].resp.status = 200
        /\ pc = "serve"

\* C10: the counter never decreases and grows by exactly 1 in the step that
\* answers 201 to a create whose insert succeeded, and in no other step; it is
\* at most the number of rows inserted and equals the number of creates
\* answered 201.
CounterCountsCreates ==
    /\ [](users_created_counter <= Cardinality(db))
    /\ [](users_created_counter = Cardinality({r \in Reqs : Created(r)}))
    /\ [][\/ users_created_counter' = users_created_counter
           \/ /\ users_created_counter' = users_created_counter + 1
              /\ \E r \in Reqs : /\ Inserted(r)
                                  /\ req[r].state = "resumed"
                                  /\ req'[r].state = "done"
                                  /\ req'[r].resp.status = 201]_vars

\* C10 witness: one create is counted while another has inserted its row and
\* is not counted yet.
CounterCountsCreatesWitness ==
    /\ users_created_counter = 1
    /\ \E r \in Reqs : Inserted(r) /\ req[r].state = "resumed"

====
